---- MODULE Spec2Model ----
(***************************************************************************)
(* Number Runner (src/app/index.tsx): the gate generator, the per-frame    *)
(* position update of the Player, the collision check of NumberRunner,     *)
(* the swipe handler, the game-over timer and the restart.                 *)
(*                                                                         *)
(* Units.  Lengths are in tenths of a scene unit, so that playerSpeed 0.1  *)
(* is the integer 1, gateSpacing 15 is 150 and collisionThreshold 2 is 20. *)
(* A frame's argument is delta*60, the elapsed time in sixtieths of a      *)
(* second; the 1000 ms of the game-over timer are 60 of them.              *)
(*                                                                         *)
(* React.  checkCollision is a useCallback closure over playerValue and    *)
(* targetLane; the frame loop calls the closure of the last committed      *)
(* render.  setPlayerValue/setTargetLane change the state at once, the     *)
(* closure sees the change only after the next Render.  processedGates,    *)
(* popupIdCounter and currentZ are refs and change at once.                *)
(***************************************************************************)
EXTENDS Integers, Sequences, FiniteSets, TLC

VARIABLES gates, playerValue, targetLane, playerZ, gameOver, finalScore,
          scorePopups, popupIdCounter, processedGates, currentZ,
          closureValue, closureLane, screen, timerLeft, timerValue,
          genOption

vars == <<gates, playerValue, targetLane, playerZ, gameOver, finalScore,
          scorePopups, popupIdCounter, processedGates, currentZ,
          closureValue, closureLane, screen, timerLeft, timerValue,
          genOption>>

\* the variables of the run, without genOption, the option last drawn
\* from the generator on its own
runVars == <<gates, playerValue, targetLane, playerZ, gameOver, finalScore,
             scorePopups, popupIdCounter, processedGates, currentZ,
             closureValue, closureLane, screen, timerLeft, timerValue>>

----------------------------------------------------------------------------
\* Bounds of the model

\* number of gates of a run in the model (GAME_CONFIG.totalGates is 10)
TotalGates == 2

\* Math.random() returns n/RandDen for n in 0..RandDen-1
RandDen == 100

----------------------------------------------------------------------------
\* GAME_CONFIG and the other constants of the program

PlayerSpeed == 1
GateSpacing == 150
\* a threshold wider than the spacing of the gates
CollisionThreshold_Wide == GateSpacing + 10

CollisionThreshold == 20
InitialValue == 10
SwipeThreshold == 30
GameOverDelay == 60

NoTimer == 0 - 1

Max(a, b) == IF a >= b THEN a ELSE b
Abs(a) == IF a >= 0 THEN a ELSE 0 - a

\* the outcomes of Math.random(), as numerators over RandDen
Random == 0 .. (RandDen - 1)

\* Math.floor(r * k) for r = n/RandDen
FloorMul(n, k) == (n * k) \div RandDen

\* delta*60 of a frame: no time, a sixth of a second, half a second,
\* five sixths of a second, two and a half seconds
FrameSet == {0, 10, 30, 50, 150}

\* a frame argument below zero, which only SpecNeg feeds
NegFrameSet == {0 - 10}

\* gestureState.dx of a swipe release
DxSet == {0 - 31, 0 - 30, 0, 30, 31}

\* the runner is followed until the game-over timer of a last gate resolved
\* at the far edge of its window is due, and (when frames with a negative
\* argument are fed) down to one threshold before the start
MaxZ == TotalGates * GateSpacing + CollisionThreshold + GameOverDelay
MinZ == 0 - CollisionThreshold

----------------------------------------------------------------------------
\* Gate generator

operations == << [type |-> "multiply", range |-> <<2, 4>>],
                 [type |-> "add",      range |-> <<10, 100>>],
                 [type |-> "subtract", range |-> <<5, 50>> ] >>

\* the draw without the + 1 that makes the upper end inclusive
RandomValue_Exclusive(range, r) == FloorMul(r, range[2] - range[1]) + range[1]

\* value = Math.floor(Math.random() * (max - min + 1)) + min
RandomValue(range, r) == FloorMul(r, range[2] - range[1] + 1) + range[1]

\* getRandomOption with the two outcomes of Math.random() it consumes
getRandomOption(r1, r2) ==
    LET op == operations[FloorMul(r1, Len(operations)) + 1]
        value == RandomValue(op.range, r2)
        isPositive == op.type = "multiply" \/ op.type = "add"
    IN  [type  |-> op.type,
         value |-> value,
         color |-> IF isPositive THEN "positive" ELSE "negative"]

\* generateGateOptions with the four outcomes of Math.random() it consumes
generateGateOptions(r) ==
    [left |-> getRandomOption(r[1], r[2]), right |-> getRandomOption(r[3], r[4])]

\* the random outcomes the runs of the model are generated from:
\*   <<0,0,99,99>>   left  x2   right -50
\*   <<99,0,50,99>>  left  -5   right +100
RandSamples == { <<0, 0, 99, 99>>, <<99, 0, 50, 99>> }

\* the position computed from the loop index without the + 1
GatePosition_FromZero(i) == i * GateSpacing

\* the positions laid out from the far end: gate 0 is the farthest
GatePosition_Reversed(i) == (TotalGates - i) * GateSpacing

\* zPosition of the gate with id i
GatePosition(i) == (i + 1) * GateSpacing

\* the useMemo body: gate i of the loop is element i+1 of the sequence
GenerateGates(rs) ==
    [k \in 1 .. TotalGates |->
        LET i == k - 1
            options == generateGateOptions(rs[k])
        IN  [id |-> i,
             zPosition |-> GatePosition(i),
             leftOption |-> options.left,
             rightOption |-> options.right]]

GateSeqs == { GenerateGates(rs) : rs \in [1 .. TotalGates -> RandSamples] }

----------------------------------------------------------------------------
\* Scoring

\* the subtraction without the clamp at zero
calculateNewValue_NoClamp(currentValue, option) ==
    CASE option.type = "multiply" -> currentValue * option.value
      [] option.type = "add"      -> currentValue + option.value
      [] option.type = "subtract" -> currentValue - option.value
      [] OTHER                    -> currentValue

calculateNewValue(currentValue, option) ==
    CASE option.type = "multiply" -> currentValue * option.value
      [] option.type = "add"      -> currentValue + option.value
      [] option.type = "subtract" -> Max(0, currentValue - option.value)
      [] OTHER                    -> currentValue

\* the distance without Math.abs: every gate behind the runner is near
InWindow_OneSided(z, gate) == gate.zPosition - z < CollisionThreshold

\* the distance compared with half the threshold
InWindow_Narrow(z, gate) == Abs(z - gate.zPosition) * 2 < CollisionThreshold

\* distance < GAME_CONFIG.collisionThreshold
InWindow(z, gate) == Abs(z - gate.zPosition) < CollisionThreshold

\* the condition without the look-up in processedGates
Collides_NoHasCheck(z, gate, processed) == InWindow(z, gate)

\* the condition of the if in checkCollision
Collides(z, gate, processed) == InWindow(z, gate) /\ gate.id \notin processed

\* the id is not recorded
AddProcessed_Forgets(processed, id) == processed

\* the set is replaced by the id instead of extended
AddProcessed_Replaces(processed, id) == {id}

\* processedGates.current.add(gate.id)
AddProcessed(processed, id) == processed \cup {id}

\* targetLane === 0 ? gate.leftOption : gate.rightOption
SelectedOption(lane, gate) == IF lane = 0 THEN gate.leftOption ELSE gate.rightOption

\* the timer callback given the score before the resolution (playerValue)
\* instead of newValue
ResolveGate_StaleFinal(st, gate, value, lane) ==
    LET selectedOption == SelectedOption(lane, gate)
        oldValue == value
        newValue == calculateNewValue(value, selectedOption)
        scoreDiff == newValue - oldValue
        newPopup == [id |-> st.counter,
                     value |-> <<IF scoreDiff > 0 THEN "+" ELSE "", scoreDiff>>,
                     color |-> selectedOption.color,
                     x |-> IF lane = 0 THEN "left" ELSE "right"]
        last == gate.id = TotalGates - 1
    IN  [processed  |-> AddProcessed(st.processed, gate.id),
         value      |-> newValue,
         popups     |-> st.popups \cup {newPopup},
         counter    |-> st.counter + 1,
         timerLeft  |-> IF last THEN GameOverDelay ELSE st.timerLeft,
         timerValue |-> IF last THEN oldValue ELSE st.timerValue]

\* the body of the if of checkCollision for one gate; st carries what the
\* forEach has written so far, value and lane are the closure's
ResolveGate(st, gate, value, lane) ==
    LET selectedOption == SelectedOption(lane, gate)
        oldValue == value
        newValue == calculateNewValue(value, selectedOption)
        scoreDiff == newValue - oldValue
        newPopup == [id |-> st.counter,
                     value |-> <<IF scoreDiff > 0 THEN "+" ELSE "", scoreDiff>>,
                     color |-> selectedOption.color,
                     x |-> IF lane = 0 THEN "left" ELSE "right"]
        last == gate.id = TotalGates - 1
    IN  [processed  |-> AddProcessed(st.processed, gate.id),
         value      |-> newValue,
         popups     |-> st.popups \cup {newPopup},
         counter    |-> st.counter + 1,
         timerLeft  |-> IF last THEN GameOverDelay ELSE st.timerLeft,
         timerValue |-> IF last THEN newValue ELSE st.timerValue]

\* gates.forEach of checkCollision, from gate k of the sequence on
RECURSIVE CheckFrom(_, _, _, _, _)
CheckFrom(k, st, z, value, lane) ==
    IF k > Len(gates) THEN st
    ELSE LET gate == gates[k]
             st2 == IF Collides(z, gate, st.processed)
                    THEN ResolveGate(st, gate, value, lane)
                    ELSE st
         IN  CheckFrom(k + 1, st2, z, value, lane)

\* checkCollision(currentZ), called through the closure of the last render
checkCollision(z, aged) ==
    CheckFrom(1,
              [processed |-> processedGates, value |-> playerValue,
               popups |-> scorePopups, counter |-> popupIdCounter,
               timerLeft |-> aged, timerValue |-> timerValue],
              z, closureValue, closureLane)

----------------------------------------------------------------------------
\* Operations

\* the state after mount with the generated gates gs
Mounted(gs) ==
    /\ gates' = gs
    /\ playerValue' = InitialValue
    /\ targetLane' = 0
    /\ playerZ' = 0
    /\ gameOver' = FALSE
    /\ finalScore' = 0
    /\ scorePopups' = {}
    /\ popupIdCounter' = 0
    /\ processedGates' = {}
    /\ currentZ' = 0
    /\ closureValue' = InitialValue
    /\ closureLane' = 0
    /\ screen' = "game"
    /\ timerLeft' = NoTimer
    /\ timerValue' = 0

Init ==
    /\ gates \in GateSeqs
    /\ playerValue = InitialValue
    /\ targetLane = 0
    /\ playerZ = 0
    /\ gameOver = FALSE
    /\ finalScore = 0
    /\ scorePopups = {}
    /\ popupIdCounter = 0
    /\ processedGates = {}
    /\ currentZ = 0
    /\ closureValue = InitialValue
    /\ closureLane = 0
    /\ screen = "game"
    /\ timerLeft = NoTimer
    /\ timerValue = 0
    /\ genOption = [type |-> "none", value |-> 0, color |-> "none"]

\* the time a pending game-over timer still has to wait after f sixtieths
Aged(f) == IF timerLeft > 0 /\ f > 0 THEN Max(0, timerLeft - f) ELSE timerLeft

\* Player's useFrame callback with delta*60 = f, and handlePositionUpdate
Tick(f) ==
    /\ screen = "game"
    /\ currentZ + PlayerSpeed * f \in MinZ .. MaxZ
    /\ LET z == currentZ + PlayerSpeed * f
           st == checkCollision(z, Aged(f))
       IN  /\ currentZ' = z
           /\ playerZ' = z
           /\ processedGates' = st.processed
           /\ playerValue' = st.value
           /\ scorePopups' = st.popups
           /\ popupIdCounter' = st.counter
           /\ timerLeft' = st.timerLeft
           /\ timerValue' = st.timerValue
    /\ UNCHANGED <<gates, targetLane, gameOver, finalScore, closureValue,
                   closureLane, screen, genOption>>

Frame == \E f \in FrameSet : Tick(f)

\* onPanResponderRelease
Swipe ==
    /\ screen = "game"
    /\ \E dx \in DxSet :
          targetLane' = IF Abs(dx) > SwipeThreshold
                        THEN (IF dx > 0 THEN 1 ELSE 0)
                        ELSE targetLane
    /\ UNCHANGED <<gates, playerValue, playerZ, gameOver, finalScore,
                   scorePopups, popupIdCounter, processedGates, currentZ,
                   closureValue, closureLane, screen, timerLeft, timerValue,
                   genOption>>

\* a render of NumberRunner commits: the frame loop gets the closure over
\* the current state, and the end screen replaces the scene once gameOver
Render ==
    /\ screen = "game"
    /\ closureValue' = playerValue
    /\ closureLane' = targetLane
    /\ screen' = IF gameOver THEN "end" ELSE "game"
    /\ UNCHANGED <<gates, playerValue, targetLane, playerZ, gameOver,
                   finalScore, scorePopups, popupIdCounter, processedGates,
                   currentZ, timerLeft, timerValue, genOption>>

\* the setTimeout callback of the last gate
TimerFire ==
    /\ timerLeft = 0
    /\ finalScore' = timerValue
    /\ gameOver' = TRUE
    /\ timerLeft' = NoTimer
    /\ UNCHANGED <<gates, playerValue, targetLane, playerZ, scorePopups,
                   popupIdCounter, processedGates, currentZ, closureValue,
                   closureLane, screen, timerValue, genOption>>

\* removePopup(id), the completion callback of a popup's animation: every
\* animation starts when its popup mounts and lasts 1500 ms, so the popup
\* that completes is the oldest one on display
RemovePopup ==
    /\ screen = "game"
    /\ \E p \in scorePopups :
          /\ \A q \in scorePopups : p.id <= q.id
          /\ scorePopups' = { q \in scorePopups : q.id # p.id }
    /\ UNCHANGED <<gates, playerValue, targetLane, playerZ, gameOver,
                   finalScore, popupIdCounter, processedGates, currentZ,
                   closureValue, closureLane, screen, timerLeft, timerValue,
                   genOption>>

\* handleRestart: the state is reset and window.location.reload() mounts
\* the component anew, with newly generated gates
Restart ==
    /\ screen = "end"
    /\ \E gs \in GateSeqs : Mounted(gs)
    /\ UNCHANGED genOption

Next == Frame \/ Swipe \/ Render \/ TimerFire \/ RemovePopup \/ Restart

Spec == Init /\ [][Next]_vars

----------------------------------------------------------------------------
\* The generator on its own: one call of getRandomOption per step, over
\* every pair of outcomes of Math.random()

FixedGates == GenerateGates([k \in 1 .. TotalGates |-> <<0, 0, 99, 99>>])

InitGen == Init /\ gates = FixedGates

DrawOption ==
    /\ \E r1 \in Random, r2 \in Random : genOption' = getRandomOption(r1, r2)
    /\ UNCHANGED runVars

NextGen == DrawOption

SpecGen == InitGen /\ [][NextGen]_vars

----------------------------------------------------------------------------
\* The run when the frame loop is also fed a negative delta

FrameNeg == \E f \in FrameSet \cup NegFrameSet : Tick(f)

NextNeg == FrameNeg \/ Swipe \/ Render \/ TimerFire \/ RemovePopup \/ Restart

SpecNeg == Init /\ [][NextNeg]_vars

----------------------------------------------------------------------------
\* Vocabulary of the properties

GateIds == 0 .. (TotalGates - 1)
LastGate == TotalGates - 1

\* the step is the reload of handleRestart
RestartStep == screen = "end" /\ screen' = "game"

\* gate id is resolved by the step
ResolvedNow(id) == id \notin processedGates /\ id \in processedGates'

----------------------------------------------------------------------------
\* C1: within a run each gate id is resolved at most once: a step emits
\* exactly one popup per gate it newly resolves, and a step that resolves no
\* new gate (a tick inside or past the window of a resolved gate included)
\* neither changes the score nor emits a popup.
C1_ResolvedAtMostOnce ==
    [][ ~RestartStep =>
          /\ popupIdCounter' - popupIdCounter
                = Cardinality(processedGates' \ processedGates)
          /\ (processedGates' = processedGates =>
                playerValue' = playerValue /\ popupIdCounter' = popupIdCounter)
      ]_vars

\* gate 0 is resolved once and the runner has since moved to the far edge
\* of its window
C1_Witness ==
    /\ processedGates = {0}
    /\ popupIdCounter = 1
    /\ currentZ = GateSpacing + CollisionThreshold

\* C2: whenever a gate is resolved, the new score is applyOperation of the
\* score the run holds immediately before the resolution and the option of
\* the lane checkCollision reads; no resolution starts from an outdated score.
C2_ScoreFromCurrentScore ==
    [][ \A k \in 1 .. TotalGates :
          (ResolvedNow(gates[k].id) /\ ~RestartStep) =>
             playerValue' =
                calculateNewValue(playerValue, SelectedOption(closureLane, gates[k]))
      ]_vars

\* C3: the score is never negative, neither the state, nor the value the
\* frame loop computes from, nor the final score.
C3_ScoreNonNegative ==
    /\ playerValue >= 0
    /\ closureValue >= 0
    /\ finalScore >= 0
    /\ timerValue >= 0

\* a Subtract resolution has clamped the score at zero
C3_Witness ==
    /\ playerValue = 0
    /\ processedGates # {}
    /\ \E p \in scorePopups : p.color = "negative" /\ p.value[2] = 0 - InitialValue

\* C4: once the last gate is resolved the run is finishing (the game-over
\* timer is pending or has fired) and no later step of the run changes the
\* score or the resolved set.
C4_FinishedIsFinal ==
    /\ [](LastGate \in processedGates => (timerLeft >= 0 \/ gameOver))
    /\ [][ (LastGate \in processedGates /\ ~RestartStep) =>
              (playerValue' = playerValue /\ processedGates' = processedGates)
         ]_vars

\* a tick has run during the delay of the game-over timer and has left the
\* window of the last gate
C4_Witness ==
    /\ LastGate \in processedGates
    /\ timerLeft > 0
    /\ timerLeft < GameOverDelay
    /\ ~gameOver
    /\ currentZ >= TotalGates * GateSpacing + CollisionThreshold

\* C5: a tick with a negative forward delta leaves the whole run state as it
\* was before the tick.
C5_NegativeTickRejected ==
    [][ \A f \in NegFrameSet : Tick(f) => UNCHANGED runVars ]_vars

\* C6: the gate sequence has exactly totalGates gates, gate i has id i and
\* position (i+1) * gateSpacing, and no step of a run modifies the sequence.
C6_GatesWellFormed ==
    /\ [](/\ Len(gates) = TotalGates
          /\ \A k \in 1 .. TotalGates :
                /\ gates[k].id = k - 1
                /\ gates[k].zPosition = k * GateSpacing)
    /\ [][ ~RestartStep => gates' = gates ]_vars

\* ticks, a lane change and a resolution have happened
C6_Witness ==
    /\ processedGates = {0}
    /\ targetLane = 1
    /\ closureLane = 1
    /\ currentZ > GateSpacing + CollisionThreshold

\* C7: every generated option has an operand inside the inclusive range of
\* its kind (Multiply 2..4, Add 10..100, Subtract 5..50), and for each kind
\* both ends of the range are produced by some outcome of the random source.
C7_OperandInRange ==
    /\ genOption.type = "multiply" => genOption.value \in 2 .. 4
    /\ genOption.type = "add" => genOption.value \in 10 .. 100
    /\ genOption.type = "subtract" => genOption.value \in 5 .. 50
    /\ \A b \in { <<"multiply", 2>>, <<"multiply", 4>>, <<"add", 10>>,
                  <<"add", 100>>, <<"subtract", 5>>, <<"subtract", 50>> } :
          \E r1 \in Random, r2 \in Random :
             LET o == getRandomOption(r1, r2)
             IN  o.type = b[1] /\ o.value = b[2]

\* the generator has drawn the upper end of the widest range
C7_Witness == genOption.type = "add" /\ genOption.value = 100

\* C8: the selected lane is always 0 or 1, a swipe release sets it to right
\* for dx > 30, to left for dx < -30 and leaves it for |dx| <= 30, and the
\* option applied when a gate resolves is the one of the lane selected by
\* the most recent swipe release before that tick.
C8_LastLaneWins ==
    /\ [](targetLane \in {0, 1})
    /\ [][ \A k \in 1 .. TotalGates :
             (ResolvedNow(gates[k].id) /\ ~RestartStep) =>
                /\ playerValue' =
                     calculateNewValue(closureValue, SelectedOption(targetLane, gates[k]))
                /\ \E p \in scorePopups' \ scorePopups :
                     p.x = (IF targetLane = 0 THEN "left" ELSE "right")
         ]_vars

\* C9: the resolved set is a subset of 0..totalGates-1 and no step of a run
\* removes an id from it.
C9_ResolvedOnlyGrows ==
    /\ [](processedGates \subseteq GateIds)
    /\ [][ ~RestartStep => processedGates \subseteq processedGates' ]_vars

\* every gate is resolved, the lane was changed and the popups are gone
C9_Witness ==
    /\ processedGates = GateIds
    /\ targetLane = 1
    /\ scorePopups = {}
    /\ popupIdCounter = TotalGates

\* C10: a gate whose window is jumped over (one tick takes the runner from
\* below position - collisionThreshold to at or above position +
\* collisionThreshold) is not resolved by that tick, and a gate that is
\* unresolved with its window behind the runner stays unresolved, with its
\* window behind the runner, at every later step of the run.
C10_JumpedGateNeverResolved ==
    [][ \A k \in 1 .. TotalGates :
          LET near == k * GateSpacing - CollisionThreshold
              far  == k * GateSpacing + CollisionThreshold
          IN  (/\ gates[k].id \notin processedGates
               /\ ~RestartStep
               /\ \/ currentZ >= far
                  \/ (currentZ < near /\ currentZ' >= far))
              => (/\ gates[k].id \notin processedGates'
                  /\ currentZ' >= far)
      ]_vars

\* gate 0 was jumped over and the run has gone on to resolve the next gate
C10_Witness ==
    /\ 0 \notin processedGates
    /\ 1 \in processedGates
    /\ popupIdCounter = 1
    /\ currentZ >= 2 * GateSpacing

----------------------------------------------------------------------------
\* The run under the scheduling of the host: while the scene is mounted the
\* frame loop keeps calling the frame callback with time passing, and a
\* timer that is due fires

\* the runs whose gates are all generated from the same random outcomes
UniformGates == { GenerateGates([k \in 1 .. TotalGates |-> r]) : r \in RandSamples }

InitLive == Init /\ gates \in UniformGates

\* one run, from mount to the end screen
NextLive == Frame \/ Swipe \/ Render \/ TimerFire \/ RemovePopup

SpecLive == InitLive /\ [][NextLive]_vars /\ WF_vars(Frame) /\ WF_vars(TimerFire)

\* gate k of the sequence is unresolved and its window is behind the runner
Skipped(k) ==
    /\ gates[k].id \notin processedGates
    /\ currentZ >= k * GateSpacing + CollisionThreshold

\* every gate is resolved and the game-over state is entered
Completed == processedGates = GateIds /\ gameOver

\* what the progress indicator computes from processedGates.current.size
ShownGateNumber == Cardinality(processedGates) + 1

----------------------------------------------------------------------------
\* C11: with gateSpacing 15 and collisionThreshold 2 no forward position the
\* runner reaches is inside the window of two gates, and no step of a run
\* resolves more than one gate or emits more than one popup.
C11_OneGatePerTick ==
    /\ [](Cardinality({ k \in 1 .. TotalGates : InWindow(currentZ, gates[k]) }) <= 1)
    /\ [][ ~RestartStep =>
              /\ Cardinality(processedGates' \ processedGates) <= 1
              /\ popupIdCounter' - popupIdCounter <= 1
         ]_vars

\* a tick has just resolved the last gate, the only one whose window holds
\* the runner, while gate 0 was resolved before
C11_Witness ==
    /\ processedGates = GateIds
    /\ timerLeft = GameOverDelay
    /\ InWindow(currentZ, gates[TotalGates])
    /\ ~InWindow(currentZ, gates[1])

\* C12: gates are resolved in strictly ascending order of their ids: a gate
\* resolved by a step has an id above every id resolved before it in the run.
C12_AscendingOrder ==
    [][ ~RestartStep =>
          \A i \in processedGates' \ processedGates :
             \A j \in processedGates : j < i
      ]_vars

\* both gates are resolved, gate 0 first, and both popups are on display
C12_Witness ==
    /\ processedGates = GateIds
    /\ popupIdCounter = TotalGates
    /\ Cardinality(scorePopups) = TotalGates

\* C13: the game-over timer is set, and the game-over state entered, only
\* once the last gate is resolved, and the final score of the game-over
\* state is the score the last gate's resolution produced, which is the
\* score of the run.
C13_GameOverAfterLastGate ==
    /\ (timerLeft >= 0 \/ gameOver) => LastGate \in processedGates
    /\ timerLeft >= 0 => timerValue = playerValue
    /\ gameOver => (finalScore = timerValue /\ finalScore = playerValue)

\* the end screen shows a final score that the gates have changed
C13_Witness ==
    /\ gameOver
    /\ screen = "end"
    /\ finalScore = playerValue
    /\ finalScore # InitialValue

\* C14: a tick that moves the runner forward by less than the width of a
\* window (2 * collisionThreshold) skips no gate; a run in which no gate is
\* skipped eventually has every gate resolved and the game-over state
\* entered; and once the last gate is skipped it stays skipped, with no
\* game-over timer set and the game-over state not entered.
C14_SmallStepsComplete ==
    /\ [][ (currentZ' > currentZ /\ currentZ' - currentZ < 2 * CollisionThreshold) =>
              \A k \in 1 .. TotalGates : Skipped(k)' => Skipped(k)
         ]_vars
    /\ <>((\E k \in 1 .. TotalGates : Skipped(k)) \/ Completed)
    /\ [](Skipped(TotalGates) => (~gameOver /\ timerLeft = NoTimer))
    /\ [][ Skipped(TotalGates) => Skipped(TotalGates)' ]_vars

\* a run of small ticks has resolved every gate and entered game over
C14_Witness ==
    /\ Completed
    /\ screen = "game"
    /\ currentZ = TotalGates * GateSpacing + GameOverDelay

\* C15: while the game screen is displayed the gate number of the progress
\* indicator (resolved gates plus one) is between 1 and totalGates, and the
\* progress fraction resolved/totalGates is between 0 and 1.
C15_ProgressInRange ==
    screen = "game" =>
       /\ ShownGateNumber >= 1
       /\ ShownGateNumber <= TotalGates
       /\ Cardinality(processedGates) >= 0
       /\ Cardinality(processedGates) <= TotalGates

====
